---- MODULE Spec2Model ----
(***************************************************************************)
(* Blockly.Input (src/core/input.ts): one Input object, its field row, its *)
(* optional connection and the collaborators it calls into (owning block,  *)
(* fields, connection, linked child block, DOM outline node).              *)
(*                                                                         *)
(* The methods of input.ts read the owning block as this.sourceBlock_; the *)
(* constructor's parameter property spells it sourceBlock.  The model      *)
(* keeps one owning-block reference, sourceBlock_, set by the constructor. *)
(***************************************************************************)
EXTENDS Integers, Sequences, FiniteSets, TLC

\* ------------------------------------------------------------------ bounds
\* Longest field row a caller builds, in each specification: a call that
\* would make the row longer is not taken.
MaxRow == 5
MaxRowNamed == 3
MaxRowVisible == 3
MaxRowLife == 2
\* dispose() calls made on one Input, in each specification.
MaxDispose == 1
MaxDisposeLife == 2
\* Largest grid spacing and line length (in pixels) and largest workspace
\* scale (in quarters) a caller passes to the Grid.
MaxSpacing == 3
MaxLength == 2
MaxScale == 5

\* ------------------------------------------------------- values and inputs
NoName == "undefined"
Names == {NoName, "x"}
Kinds == {"ValueInput", "StatementInput", "DummyInput"}
InputNames == {"", "IN"}
Checks == {"null", "Number"}
Aligns == {"LEFT", "RIGHT"}
ALIGN_LEFT == "LEFT"

\* What a caller can pass as `field`: null/undefined, the empty string, a
\* non-empty string, or a Field object: "fieldA" and "fieldB" are two Field
\* objects that declare no prefix or suffix, "presuf" is a Field object that
\* declares a prefix and a suffix ("ptxt" and "stxt").
FieldArgs == {"null", "empty", "txt", "fieldA", "fieldB", "presuf"}

\* The Field objects among them; the rest are strings and null.
FieldObjects == {"fieldA", "fieldB", "presuf"}

\* JavaScript truthiness of a field argument (input.ts:112, 125, 132).
Falsy(field) == field \in {"null", "empty", "none"}

\* field.prefixField (input.ts:125); labels built from strings declare none.
prefixField(field) == IF field = "presuf" THEN "ptxt" ELSE "none"

\* field.suffixField (input.ts:132).
suffixField(field) == IF field = "presuf" THEN "stxt" ELSE "none"

\* -------------------------------------------------------------------- state
VARIABLES
  exists,        \* an Input has been constructed
  type,          \* Input.type
  name,          \* Input.name
  sourceBlock_,  \* "block" or "null"
  connection,    \* "conn" or "null"
  fieldRow,      \* sequence of field objects (records)
  outlinePath,   \* "path" or "null"
  align,         \* Input.align
  visible_,      \* Input.visible_
  block,         \* owning block: [rendered, workspaceRendered]
  conn,          \* the connection object: [check, hidden, disposed]
  child,         \* connection.targetBlock(): [linked, display, rendered, nested]
  dom,           \* outline node: [attached, removed]
  disposeCalls,  \* dispose() calls so far
  last,          \* the last call: operation, arguments, result, calls made
  grid           \* the workspace's Grid object and its pattern element

vars == <<exists, type, name, sourceBlock_, connection, fieldRow, outlinePath,
          align, visible_, block, conn, child, dom, disposeCalls, last, grid>>

inputVars == <<type, name, sourceBlock_, connection, fieldRow, outlinePath,
               align, visible_>>
worldVars == <<block, conn, child, dom>>

\* A Field object as the Input sees it: which object it is (the Field passed
\* in, or the label made from a string), its name, the block it is bound to,
\* whether it was initialised, its visibility and the dispose() calls it got.
NewField(field, block_, inited) ==
  [field |-> field, name |-> NoName, sourceBlock |-> block_,
   inited |-> inited, visible |-> TRUE, disposed |-> 0]

\* One call made into a collaborator: `field` is the field called (or
\* "none"), `row` the field row at the time of a call to the block.
Call(what, field, row) == [call |-> what, field |-> field, row |-> row]

Fields(row) == [i \in 1..Len(row) |-> row[i].field]

\* Results of a call.
Returned(kind, index, list) ==
  [status |-> "returned", error |-> "none", kind |-> kind, index |-> index,
   list |-> list]
Threw(error) ==
  [status |-> "threw", error |-> error, kind |-> "none", index |-> -1,
   list |-> <<>>]

\* The arguments of a call: an index, a field, a string (a name, a check, an
\* alignment) and a flag, each where the operation takes one.
Args(index, field, arg, flag) ==
  [index |-> index, field |-> field, arg |-> arg, flag |-> flag]
NoArgs == Args(0, "none", "none", FALSE)

\* The last call as its caller saw it: the operation, its arguments, its
\* result and the calls it made into collaborators, in order.
Last(op, args, result, calls) ==
  [op |-> op, args |-> args, result |-> result, calls |-> calls]

\* An SVG attribute group of the grid: unset until a method sets it.
Tile(set, width, height) == [set |-> set, width |-> width, height |-> height]
Origin(set, x, y) == [set |-> set, x |-> x, y |-> y]
LineAttrs(set, width, x1, y1, x2, y2) ==
  [set |-> set, strokeWidth |-> width, x1 |-> x1, y1 |-> y1, x2 |-> x2,
   y2 |-> y2]

\* Numbers of the grid are fixed-point.  A scale is counted in quarters
\* (ScaleOne is the scale 1 of part_000:99); spacing_, length_ and the
\* pattern's x and y are whole pixels; the sizes update() computes are
\* products of a pixel count, halves and a scale, counted in eighths of a
\* pixel (PxUnit to the pixel).
ScaleOne == 4
PxUnit == 8

\* No Grid constructed yet.
NoGrid ==
  [exists |-> FALSE, spacing_ |-> 0, length_ |-> 0, snapToGrid_ |-> FALSE,
   lines |-> 0, ie |-> FALSE, gridPattern_ |-> "null", scale_ |-> ScaleOne,
   tile |-> Tile(FALSE, 0, 0), origin |-> Origin(FALSE, 0, 0),
   line1 |-> LineAttrs(FALSE, 0, 0, 0, 0, 0),
   line2 |-> LineAttrs(FALSE, 0, 0, 0, 0, 0),
   op |-> "none", threw |-> FALSE, value |-> <<>>]

Init ==
  /\ exists = FALSE
  /\ type = "DummyInput"
  /\ name = ""
  /\ sourceBlock_ = "null"
  /\ connection = "null"
  /\ fieldRow = <<>>
  /\ outlinePath = "null"
  /\ align = ALIGN_LEFT
  /\ visible_ = TRUE
  /\ block = [rendered |-> FALSE, workspaceRendered |-> FALSE]
  /\ conn = [check |-> "null", hidden |-> FALSE, disposed |-> 0]
  /\ child = [linked |-> FALSE, display |-> "block", rendered |-> FALSE, nested |-> FALSE]
  /\ dom = [attached |-> FALSE, removed |-> 0]
  /\ disposeCalls = 0
  /\ last = Last("none", NoArgs, Returned("void", 0, <<>>), <<>>)
  /\ grid = NoGrid

\* ------------------------------------------------------------- constructor
\* The check with statement inputs forgotten.
NameMissingValueOnly(t, n) == t = "ValueInput" /\ n = ""

\* input.ts:55: type !== ConnectionType.DummyInput && !name
NameMissing(t, n) == t # "DummyInput" /\ n = ""

\* new Input(type, name, block, connection), input.ts:49-58, with the field
\* initialisers of input.ts:61, 68, 75, 82.  cfg = [type, name, connection,
\* block, child]: the arguments, and the state of the owning block and of the
\* block linked to the connection.
constructor(cfg) ==
  /\ ~exists
  /\ UNCHANGED grid
  /\ IF NameMissing(cfg.type, cfg.name)
     THEN /\ last' = Last("constructor", Args(0, cfg.type, cfg.name, FALSE),
                          Threw("EmptyName"), <<>>)
          /\ UNCHANGED <<exists, inputVars, worldVars, disposeCalls>>
     ELSE /\ exists' = TRUE
          /\ type' = cfg.type
          /\ name' = cfg.name
          /\ sourceBlock_' = "block"
          /\ connection' = cfg.connection
          /\ fieldRow' = <<>>
          /\ outlinePath' = "null"
          /\ align' = ALIGN_LEFT
          /\ visible_' = TRUE
          /\ block' = cfg.block
          /\ conn' = [check |-> "null", hidden |-> FALSE, disposed |-> 0]
          /\ child' = cfg.child
          /\ dom' = [attached |-> FALSE, removed |-> 0]
          /\ disposeCalls' = 0
          /\ last' = Last("constructor", Args(0, cfg.type, cfg.name, FALSE),
                          Returned("this", 0, <<>>), <<>>)

\* Owning blocks: headless, on a rendered workspace but not yet rendered,
\* rendered.
Headless == [rendered |-> FALSE, workspaceRendered |-> FALSE]
Unrendered == [rendered |-> FALSE, workspaceRendered |-> TRUE]
Rendered == [rendered |-> TRUE, workspaceRendered |-> TRUE]
Blocks == {Headless, Unrendered, Rendered}

\* The block linked to the connection: none, or a block shown on the
\* workspace (rendered when the owning block is), with or without blocks
\* below it (`nestings`).
NoChild ==
  [linked |-> FALSE, display |-> "block", rendered |-> FALSE, nested |-> FALSE]
Children(c, b, nestings) ==
  {NoChild}
  \cup (IF c = "conn"
        THEN { [linked |-> TRUE, display |-> "block", rendered |-> b.rendered,
                nested |-> n] : n \in nestings }
        ELSE {})

Configs(kinds, names, connections, blocks, nestings) ==
  UNION { { [type |-> t, name |-> n, connection |-> c, block |-> b, child |-> ch]
            : ch \in Children(c, b, nestings) }
          : <<t, n, c, b>> \in kinds \X names \X connections \X blocks }

\* ------------------------------------------------------------ insertFieldAt
\* The bounds check off by one: the end of the row is rejected.
OutOfBoundsOffByOne(index, len) == index < 0 \/ index >= len

\* input.ts:107
OutOfBounds(index, len) == index < 0 \/ index > len

\* The early return for falsy fields left out.
GeneratesNoFieldNever(field, opt_name) == FALSE

\* input.ts:112
GeneratesNoField(field, opt_name) == Falsy(field) /\ opt_name = NoName

\* The field pushed on the end of the row instead of spliced in.
PushInsteadOfSplice(row, index, f) == Append(row, f)

\* The field spliced in one place too far.
SpliceOneLate(row, index, f) ==
  IF index < Len(row)
  THEN SubSeq(row, 1, index + 1) \o <<f>> \o SubSeq(row, index + 2, Len(row))
  ELSE Append(row, f)

\* this.fieldRow.splice(index, 0, field), input.ts:130 (index is 0-based).
Splice(row, index, f) ==
  SubSeq(row, 1, index) \o <<f>> \o SubSeq(row, index + 1, Len(row))

\* The block rendered whether or not it is a rendered block.
RenderAndBumpAlways(row, rendered) ==
  <<Call("block.render", "none", Fields(row)),
    Call("block.bumpNeighbours_", "none", Fields(row))>>

\* The block calls of input.ts:137-141.
RenderAndBump(row, rendered) ==
  IF rendered
  THEN <<Call("block.render", "none", Fields(row)),
         Call("block.bumpNeighbours_", "none", Fields(row))>>
  ELSE <<>>

\* input.ts:119-122: field.setSourceBlock and, on a rendered block,
\* field.init.
BindCalls(field, rendered) ==
  <<Call("field.setSourceBlock", field, <<>>)>>
  \o (IF rendered THEN <<Call("field.init", field, <<>>)>> ELSE <<>>)

\* input.ts:116-142 for a field argument that passed the checks of lines
\* 107-114, on a live Input; a string becomes a new label (lines 116-118).
\* m = [row, calls, index]: the field row, the collaborator calls so far and
\* the index.
RECURSIVE insertField(_, _, _, _)
insertField(m, field, opt_name, rendered) ==
  LET f  == [NewField(field, "block", rendered) EXCEPT !.name = opt_name]
      m0 == [m EXCEPT !.calls = @ \o BindCalls(field, rendered)]
      m1 == IF ~Falsy(prefixField(field))
            THEN insertField(m0, prefixField(field), NoName, rendered)
            ELSE m0
      m2 == [m1 EXCEPT !.row = Splice(m1.row, m1.index, f),
                       !.index = m1.index + 1]
      m3 == IF ~Falsy(suffixField(field))
            THEN insertField(m2, suffixField(field), NoName, rendered)
            ELSE m2
  IN [m3 EXCEPT !.calls = @ \o RenderAndBump(m3.row, rendered)]

\* The whole of insertFieldAt, input.ts:106-143: [result, row, calls].
insertFieldAtOutcome(index, field, opt_name) ==
  LET same(result, calls) ==
        [result |-> result, row |-> fieldRow, calls |-> calls]
  IN IF OutOfBounds(index, Len(fieldRow))
       THEN same(Threw("OutOfRange"), <<>>)
     ELSE IF GeneratesNoField(field, opt_name)
       THEN same(Returned("this", 0, <<>>), <<>>)
     ELSE IF field = "null"
       \* null.setSourceBlock, input.ts:119
       THEN same(Threw("TypeError"), <<>>)
     ELSE IF sourceBlock_ = "null"
       \* field.setSourceBlock(null), then null.rendered, input.ts:119-120
       THEN same(Threw("TypeError"),
                 <<Call("field.setSourceBlock(null)", field, <<>>)>>)
     ELSE LET m == insertField([row |-> fieldRow, calls |-> <<>>,
                                index |-> index],
                               field, opt_name, block.rendered)
          IN [result |-> Returned("index", m.index, <<>>), row |-> m.row,
              calls |-> m.calls]

insertFieldAt(index, field, opt_name) ==
  /\ exists
  /\ UNCHANGED grid
  /\ LET o == insertFieldAtOutcome(index, field, opt_name)
     IN /\ fieldRow' = o.row
        /\ last' = Last("insertFieldAt", Args(index, field, opt_name, FALSE),
                        o.result, o.calls)
  /\ UNCHANGED <<exists, type, name, sourceBlock_, connection, outlinePath,
                 align, visible_, worldVars, disposeCalls>>

\* input.ts:92-95: insertFieldAt at the end of the row; returns this unless
\* insertFieldAt threw.
appendField(field, opt_name) ==
  /\ exists
  /\ UNCHANGED grid
  /\ LET o == insertFieldAtOutcome(Len(fieldRow), field, opt_name)
     IN /\ fieldRow' = o.row
        /\ last' = Last("appendField", Args(0, field, opt_name, FALSE),
                        IF o.result.status = "threw" THEN o.result
                        ELSE Returned("this", 0, <<>>),
                        o.calls)
  /\ UNCHANGED <<exists, type, name, sourceBlock_, connection, outlinePath,
                 align, visible_, worldVars, disposeCalls>>

\* -------------------------------------------------------------- removeField
\* The loop of input.ts:151-152: position (1-based) of the first field whose
\* name is `n`, 0 when there is none.
FirstMatch(row, n) ==
  IF \E i \in 1..Len(row) : row[i].name = n
  THEN CHOOSE i \in 1..Len(row) :
         /\ row[i].name = n
         /\ \A j \in 1..(i - 1) : row[j].name # n
  ELSE 0

\* splice(i) without a count: the rest of the row goes too.
SpliceWithoutCount(row, i) == SubSeq(row, 1, i - 1)

\* this.fieldRow.splice(i, 1), input.ts:154 (i is 1-based here).
RemoveAt(row, i) == SubSeq(row, 1, i - 1) \o SubSeq(row, i + 1, Len(row))

\* input.ts:150-164.  With the owning block gone, the read of
\* this.sourceBlock_.rendered at line 155 throws after the field was disposed
\* and spliced out.
removeFieldOutcome(n) ==
  LET i == FirstMatch(fieldRow, n)
  IN IF i = 0
     THEN [result |-> Threw("NotFound"), row |-> fieldRow, calls |-> <<>>]
     ELSE LET row == RemoveAt(fieldRow, i)
              disposed == <<Call("field.dispose", fieldRow[i].field, <<>>)>>
          IN IF sourceBlock_ = "null"
             THEN [result |-> Threw("TypeError"), row |-> row, calls |-> disposed]
             ELSE [result |-> Returned("void", 0, <<>>), row |-> row,
                   calls |-> disposed \o RenderAndBump(row, block.rendered)]

removeField(n) ==
  /\ exists
  /\ UNCHANGED grid
  /\ LET o == removeFieldOutcome(n)
     IN /\ fieldRow' = o.row
        /\ last' = Last("removeField", Args(0, "none", n, FALSE), o.result,
                        o.calls)
  /\ UNCHANGED <<exists, type, name, sourceBlock_, connection, outlinePath,
                 align, visible_, worldVars, disposeCalls>>

\* --------------------------------------------------------------- setVisible
\* input.ts:188-190: field.setVisible(visible) on every field, in row order.
SetFieldsVisible(row, visible) ==
  [i \in 1..Len(row) |-> [row[i] EXCEPT !.visible = visible]]

\* The loop over the row run from its end.
FieldCallsReversed(what, row) ==
  [i \in 1..Len(row) |-> Call(what, row[Len(row) + 1 - i].field, <<>>)]

\* input.ts:188-190, 244-246, 256-258: one call on every field, in row order.
FieldCalls(what, row) ==
  [i \in 1..Len(row) |-> Call(what, row[i].field, <<>>)]

\* connection.unhideAll(): the blocks to render again, the linked block and
\* the hidden blocks below it.
unhideAll(ch) ==
  IF ch.linked
  THEN <<"child">> \o (IF ch.nested THEN <<"grandchild">> ELSE <<>>)
  ELSE <<>>

\* The early return never taken.
SameVisibilityNever(current, visible) == FALSE

\* input.ts:182
SameVisibility(current, visible) == current = visible

\* input.ts:187
Display(visible) == IF visible THEN "block" ELSE "none"

\* The list of connection.unhideAll() dropped.
RenderListDropped(hasConn, visible, ch) == <<>>

\* input.ts:181, 193-194: the list returned is that of
\* connection.unhideAll(), empty when hiding or without a connection.
RenderList(hasConn, visible, ch) ==
  IF hasConn /\ visible THEN unhideAll(ch) ELSE <<>>

\* input.ts:180-207: [result, visible, row, conn, child, calls].
setVisibleOutcome(visible) ==
  IF SameVisibility(visible_, visible)
  THEN [result |-> Returned("list", 0, <<>>), visible |-> visible_,
        row |-> fieldRow, conn |-> conn, child |-> child, calls |-> <<>>]
  ELSE LET display == Display(visible)
           hasConn == connection # "null"
           renderList == RenderList(hasConn, visible, child)
           connCalls ==
             IF ~hasConn THEN <<>>
             ELSE <<Call(IF visible THEN "connection.unhideAll"
                         ELSE "connection.hideAll", "none", <<>>)>>
                  \o (IF child.linked
                      THEN <<Call("child.display", "none", <<>>)>>
                      ELSE <<>>)
       IN [result |-> Returned("list", 0, renderList),
           visible |-> visible,
           row |-> SetFieldsVisible(fieldRow, visible),
           conn |-> IF hasConn THEN [conn EXCEPT !.hidden = ~visible] ELSE conn,
           child |-> IF hasConn /\ child.linked
                     THEN [child EXCEPT !.display = display,
                                        !.rendered = IF visible THEN @ ELSE FALSE]
                     ELSE child,
           calls |-> FieldCalls("field.setVisible", fieldRow) \o connCalls]

setVisible(visible) ==
  /\ exists
  /\ UNCHANGED grid
  /\ LET o == setVisibleOutcome(visible)
     IN /\ visible_' = o.visible
        /\ fieldRow' = o.row
        /\ conn' = o.conn
        /\ child' = o.child
        /\ last' = Last("setVisible", Args(0, "none", "none", visible),
                        o.result, o.calls)
  /\ UNCHANGED <<exists, type, name, sourceBlock_, connection, outlinePath,
                 align, block, dom, disposeCalls>>

\* ----------------------------------------------------------------- setCheck
\* The missing-connection check never taken.
NoConnectionNever(c) == FALSE

\* input.ts:216
NoConnection(c) == c = "null"

\* input.ts:215-221; connection.setCheck(check) replaces the accepted types.
setCheck(check) ==
  /\ exists
  /\ UNCHANGED grid
  /\ IF NoConnection(connection)
     THEN /\ last' = Last("setCheck", Args(0, "none", check, FALSE),
                          Threw("InvalidState"), <<>>)
          /\ UNCHANGED conn
     ELSE /\ conn' = [conn EXCEPT !.check = check]
          /\ last' = Last("setCheck", Args(0, "none", check, FALSE),
                          Returned("this", 0, <<>>),
                          <<Call("connection.setCheck", "none", <<>>)>>)
  /\ UNCHANGED <<exists, inputVars, block, child, dom, disposeCalls>>

\* ----------------------------------------------------------------- setAlign
\* input.ts:229-235; line 231 reads this.sourceBlock_.rendered after the
\* assignment of line 230.
setAlign(a) ==
  /\ exists
  /\ UNCHANGED grid
  /\ align' = a
  /\ last' = Last("setAlign", Args(0, "none", a, FALSE),
                  IF sourceBlock_ = "null" THEN Threw("TypeError")
                  ELSE Returned("this", 0, <<>>),
                  IF sourceBlock_ # "null" /\ block.rendered
                  THEN <<Call("block.render", "none", Fields(fieldRow))>> ELSE <<>>)
  /\ UNCHANGED <<exists, type, name, sourceBlock_, connection, fieldRow,
                 outlinePath, visible_, worldVars, disposeCalls>>

\* --------------------------------------------------------------------- init
\* input.ts:244-246
InitFields(row) == [i \in 1..Len(row) |-> [row[i] EXCEPT !.inited = TRUE]]

\* input.ts:240-247
init ==
  /\ exists
  /\ UNCHANGED grid
  /\ IF sourceBlock_ = "null"
     THEN /\ last' = Last("init", NoArgs, Threw("TypeError"), <<>>)
          /\ UNCHANGED fieldRow
     ELSE IF ~block.workspaceRendered
     THEN /\ last' = Last("init", NoArgs, Returned("void", 0, <<>>), <<>>)
          /\ UNCHANGED fieldRow
     ELSE /\ fieldRow' = InitFields(fieldRow)
          /\ last' = Last("init", NoArgs, Returned("void", 0, <<>>),
                          FieldCalls("field.init", fieldRow))
  /\ UNCHANGED <<exists, type, name, sourceBlock_, connection, outlinePath,
                 align, visible_, worldVars, disposeCalls>>

\* ------------------------------------------------------------------ dispose
\* input.ts:256-258: field.dispose() on every field; the row is kept.
DisposeFields(row) ==
  [i \in 1..Len(row) |-> [row[i] EXCEPT !.disposed = @ + 1]]

\* input.ts:253-255: goog.dom.removeNode(this.outlinePath); outlinePath is
\* kept.
RemoveOutline(path, d) ==
  IF path # "null" THEN [attached |-> FALSE, removed |-> d.removed + 1] ELSE d

\* input.ts:259-261: this.connection.dispose(); connection is kept.
DisposeConnection(c, cn) ==
  IF c # "null" THEN [cn EXCEPT !.disposed = @ + 1] ELSE cn

\* input.ts:252-263
dispose ==
  /\ exists
  /\ UNCHANGED grid
  /\ disposeCalls' = disposeCalls + 1
  /\ dom' = RemoveOutline(outlinePath, dom)
  /\ fieldRow' = DisposeFields(fieldRow)
  /\ conn' = DisposeConnection(connection, conn)
  /\ sourceBlock_' = "null"
  /\ last' = Last("dispose", NoArgs, Returned("void", 0, <<>>),
                  (IF outlinePath # "null"
                   THEN <<Call("goog.dom.removeNode", "none", <<>>)>> ELSE <<>>)
                  \o FieldCalls("field.dispose", fieldRow)
                  \o (IF connection # "null"
                      THEN <<Call("connection.dispose", "none", <<>>)>> ELSE <<>>))
  /\ UNCHANGED <<exists, type, name, connection, outlinePath, align, visible_,
                 block, child>>

\* ---------------------------------------------------------- initOutlinePath
\* The outline created for an input of any kind.
CreatesOutlineAnyKind(workspaceRendered, path, t) ==
  workspaceRendered /\ path = "null"

\* input.ts:271-277: the two early returns and the test of the kind.
CreatesOutline(workspaceRendered, path, t) ==
  workspaceRendered /\ path = "null" /\ t = "ValueInput"

\* input.ts:270-287
initOutlinePath ==
  /\ exists
  /\ UNCHANGED grid
  /\ IF sourceBlock_ = "null"
     THEN /\ last' = Last("initOutlinePath", NoArgs, Threw("TypeError"), <<>>)
          /\ UNCHANGED <<outlinePath, dom>>
     ELSE IF ~CreatesOutline(block.workspaceRendered, outlinePath, type)
     THEN /\ last' = Last("initOutlinePath", NoArgs,
                          Returned("void", 0, <<>>), <<>>)
          /\ UNCHANGED <<outlinePath, dom>>
     ELSE /\ outlinePath' = "path"
          /\ dom' = [dom EXCEPT !.attached = TRUE]
          /\ last' = Last("initOutlinePath", NoArgs, Returned("void", 0, <<>>),
                          <<Call("createSvgElement", "none", <<>>)>>)
  /\ UNCHANGED <<exists, type, name, sourceBlock_, connection, fieldRow, align,
                 visible_, block, conn, child, disposeCalls>>

\* --------------------------------------------------------------------- Grid
\* The state of the Input, which no Grid method touches.
inputState == <<exists, inputVars, worldVars, disposeCalls, last>>

\* Grid.createDom, part_000:208-233: the number of line elements put into the
\* pattern, two for a grid of crosses, one otherwise.
createDom(options) ==
  IF options.length > 0 /\ options.spacing > 0
  THEN (IF options.length > 1 THEN 2 ELSE 1)
  ELSE 1

\* new Grid(pattern, options), part_000:42-49 and the initialisers of lines
\* 56-99, for the pattern element createDom made from the same options; `ie`
\* is goog.userAgent.IE || goog.userAgent.EDGE of the browser.
gridConstructor(options, ie) ==
  /\ ~grid.exists
  /\ grid' = [NoGrid EXCEPT !.exists = TRUE,
                            !.gridPattern_ = "pattern",
                            !.spacing_ = options.spacing,
                            !.length_ = options.length,
                            !.snapToGrid_ = options.snap,
                            !.lines = createDom(options),
                            !.ie = ie,
                            !.op = "constructor"]
  /\ UNCHANGED inputState

\* The product used as it is, without the replacement of zero.
safeSpacingUnguarded(spacing, scale) == 2 * spacing * scale

\* part_000:145: (this.spacing_ * scale) || 100, in eighths of a pixel.
safeSpacing(spacing, scale) ==
  IF spacing * scale # 0 THEN 2 * spacing * scale ELSE 100 * PxUnit

\* part_000:150: Math.floor(this.spacing_ / 2) + 0.5, in halves of a pixel.
half(spacing) == 2 * (spacing \div 2) + 1

\* part_000:142-160 past line 143, with the pattern element in place: the
\* tile and the attributes of the line elements that exist (lines 173-181).
updated(g, scale) ==
  LET start == (half(g.spacing_) - g.length_) * scale
      end == (half(g.spacing_) + g.length_) * scale
      mid == half(g.spacing_) * scale
      size == safeSpacing(g.spacing_, scale)
  IN [g EXCEPT !.scale_ = scale,
               !.tile = Tile(TRUE, size, size),
               !.line1 = IF g.lines >= 1
                         THEN LineAttrs(TRUE, 2 * scale, start, mid, end, mid)
                         ELSE @,
               !.line2 = IF g.lines >= 2
                         THEN LineAttrs(TRUE, 2 * scale, mid, start, mid, end)
                         ELSE @]

\* Grid.update(scale), part_000:142-160; on a disposed grid line 147 throws
\* after line 143 has stored the scale.
update(scale) ==
  /\ grid.exists
  /\ grid' = IF grid.gridPattern_ = "null"
             THEN [grid EXCEPT !.scale_ = scale, !.op = "update",
                               !.threw = TRUE, !.value = <<>>]
             ELSE [updated(grid, scale) EXCEPT !.op = "update",
                                               !.threw = FALSE, !.value = <<>>]
  /\ UNCHANGED inputState

\* Grid.moveTo(x, y), part_000:189-198
moveTo(x, y) ==
  /\ grid.exists
  /\ grid' = IF grid.gridPattern_ = "null"
             THEN [grid EXCEPT !.op = "moveTo", !.threw = TRUE, !.value = <<>>]
             ELSE LET moved == [grid EXCEPT !.origin = Origin(TRUE, x, y),
                                            !.op = "moveTo", !.threw = FALSE,
                                            !.value = <<>>]
                  IN IF grid.ie THEN updated(moved, grid.scale_) ELSE moved
  /\ UNCHANGED inputState

\* Grid.dispose(), part_000:105-107
gridDispose ==
  /\ grid.exists
  /\ grid' = [grid EXCEPT !.gridPattern_ = "null", !.op = "dispose",
                          !.threw = FALSE, !.value = <<>>]
  /\ UNCHANGED inputState

\* Grid.shouldSnap(), part_000:114-116
shouldSnap ==
  /\ grid.exists
  /\ grid' = [grid EXCEPT !.op = "shouldSnap", !.threw = FALSE,
                          !.value = <<grid.snapToGrid_>>]
  /\ UNCHANGED inputState

\* Grid.getSpacing(), part_000:123-125
getSpacing ==
  /\ grid.exists
  /\ grid' = [grid EXCEPT !.op = "getSpacing", !.threw = FALSE,
                          !.value = <<grid.spacing_>>]
  /\ UNCHANGED inputState

\* Grid.getPatternId(), part_000:133-135; null.id on a disposed grid.
getPatternId ==
  /\ grid.exists
  /\ grid' = IF grid.gridPattern_ = "null"
             THEN [grid EXCEPT !.op = "getPatternId", !.threw = TRUE,
                               !.value = <<>>]
             ELSE [grid EXCEPT !.op = "getPatternId", !.threw = FALSE,
                               !.value = <<"id">>]
  /\ UNCHANGED inputState

\* ------------------------------------------------------------ specification
\* A caller passes a Field object that is not in the row already.
NotInRow(field) ==
  field \in FieldObjects => \A i \in 1..Len(fieldRow) : fieldRow[i].field # field

\* One step of a caller that draws its arguments from the sets of I, keeps
\* the field row within I.maxRow fields and calls dispose() at most
\* I.maxDispose times.
Step(I) ==
  \/ \E cfg \in I.configs : constructor(cfg)
  \/ \E index \in -1..(Len(fieldRow) + 1), field \in I.fields, n \in I.names :
       /\ NotInRow(field)
       /\ insertFieldAt(index, field, n)
       /\ Len(fieldRow') <= I.maxRow
  \/ \E field \in I.fields, n \in I.names :
       /\ NotInRow(field)
       /\ appendField(field, n)
       /\ Len(fieldRow') <= I.maxRow
  \/ \E n \in I.names : removeField(n)
  \/ \E v \in I.visibles : setVisible(v)
  \/ \E check \in I.checks : setCheck(check)
  \/ \E a \in I.aligns : setAlign(a)
  \/ init
  \/ disposeCalls < I.maxDispose /\ dispose
  \/ initOutlinePath

\* Field-row operations on an Input without a connection: unnamed Field
\* objects, with and without a prefix and a suffix.
RowInputs ==
  [configs |-> Configs({"DummyInput"}, {""}, {"null"}, {Headless, Rendered}, {}),
   fields |-> {"null", "fieldA", "fieldB", "presuf"},
   names |-> {NoName}, visibles |-> {TRUE}, checks |-> {"null"},
   aligns |-> {ALIGN_LEFT}, maxRow |-> MaxRow, maxDispose |-> MaxDispose]

Next == Step(RowInputs)

Spec == Init /\ [][Next]_vars

\* Field-row operations with named and unnamed labels and falsy arguments.
NamedInputs ==
  [configs |-> Configs({"DummyInput"}, {""}, {"null"}, {Headless, Rendered}, {}),
   fields |-> {"null", "empty", "txt"},
   names |-> Names, visibles |-> {TRUE}, checks |-> {"null"},
   aligns |-> {ALIGN_LEFT}, maxRow |-> MaxRowNamed, maxDispose |-> MaxDispose]

SpecNamed == Init /\ [][Step(NamedInputs)]_vars

\* Visibility of an Input with or without a connection and a linked block.
VisibleInputs ==
  [configs |-> Configs({"ValueInput"}, {"IN"}, {"conn", "null"},
                       {Headless, Rendered}, BOOLEAN),
   fields |-> {"txt", "fieldA"},
   names |-> {NoName}, visibles |-> BOOLEAN, checks |-> {"null"},
   aligns |-> {ALIGN_LEFT}, maxRow |-> MaxRowVisible,
   maxDispose |-> MaxDispose]

SpecVisible == Init /\ [][Step(VisibleInputs)]_vars

\* Construction, configuration and teardown of Inputs of every kind.
LifeInputs ==
  [configs |-> Configs(Kinds, InputNames, {"conn", "null"}, Blocks, {}),
   fields |-> {"txt", "fieldA"},
   names |-> {NoName}, visibles |-> {TRUE}, checks |-> Checks,
   aligns |-> Aligns, maxRow |-> MaxRowLife, maxDispose |-> MaxDisposeLife]

SpecLife == Init /\ [][Step(LifeInputs)]_vars

\* The Grid of a workspace: options and scales from zero up, patterns moved
\* about, on browsers of both kinds.
GridOptions ==
  [spacing : 0..MaxSpacing, length : 0..MaxLength, snap : BOOLEAN]
Scales == 0..MaxScale
Coords == {0, 1}

NextGrid ==
  \/ \E options \in GridOptions, ie \in BOOLEAN : gridConstructor(options, ie)
  \/ \E scale \in Scales : update(scale)
  \/ \E x \in Coords, y \in Coords : moveTo(x, y)
  \/ gridDispose
  \/ shouldSnap
  \/ getSpacing
  \/ getPatternId

SpecGrid == Init /\ [][NextGrid]_vars

\* ================================================================== claims

\* C1: after dispose() the Input's field row is empty, its connection is null
\* and its owning-block reference is null.
C1_DisposedInputIsCleared ==
  last.op = "dispose" =>
    /\ fieldRow = <<>>
    /\ connection = "null"
    /\ sourceBlock_ = "null"

\* C2: dispose() is idempotent: over any sequence of operations every field
\* of the row and the connection receive dispose at most once, and the
\* outline is detached at most once.
C2_DisposeAtMostOnce ==
  /\ \A i \in 1..Len(fieldRow) : fieldRow[i].disposed <= 1
  /\ conn.disposed <= 1
  /\ dom.removed <= 1

\* C3: on a live Input, insertFieldAt(i, f) of a field f declaring a prefix
\* and a suffix, at any index i of 0..n of a row of length n, gives a row of
\* length n+3 holding prefix, f, suffix at i, i+1, i+2, with the fields that
\* were before i and those that were from i on unchanged and in order, and
\* returns i+3.
C3_PrefixFieldSuffix ==
  [][ LET i == last'.args.index
      IN ( /\ last'.op = "insertFieldAt"
           /\ last'.args.field = "presuf"
           /\ sourceBlock_ # "null"
           /\ i \in 0..Len(fieldRow) ) =>
           /\ Len(fieldRow') = Len(fieldRow) + 3
           /\ fieldRow'[i + 1].field = "ptxt"
           /\ fieldRow'[i + 2].field = "presuf"
           /\ fieldRow'[i + 3].field = "stxt"
           /\ \A j \in 1..i : fieldRow'[j] = fieldRow[j]
           /\ \A j \in (i + 1)..Len(fieldRow) : fieldRow'[j + 3] = fieldRow[j]
           /\ last'.result = Returned("index", i + 3, <<>>) ]_vars

\* A prefix/field/suffix group was inserted between two fields.
C3_Witness ==
  /\ last.op = "insertFieldAt"
  /\ last.args.field = "presuf"
  /\ last.args.index = 1
  /\ last.result = Returned("index", last.args.index + 3, <<>>)
  /\ Len(fieldRow) = 5
  /\ fieldRow[last.args.index + 1].field = "ptxt"
  /\ fieldRow[last.args.index + 2].field = "presuf"
  /\ fieldRow[last.args.index + 3].field = "stxt"

PlainFields == {"txt", "fieldA", "fieldB"}

\* C4: when insertFieldAt(i, a) of a plain field a has just returned and
\* insertFieldAt(i, b) of another plain field b follows, b is at position i,
\* a at position i+1, and every other field keeps its place in the order.
C4_SecondInsertShiftsFirst ==
  [][ LET i == last'.args.index
      IN ( /\ last.op = "insertFieldAt"
           /\ last.args.field \in PlainFields
           /\ last.args.index = i
           /\ last.result.status = "returned"
           /\ last'.op = "insertFieldAt"
           /\ last'.args.field \in PlainFields ) =>
           /\ last'.result = Returned("index", i + 1, <<>>)
           /\ fieldRow[i + 1].field = last.args.field
           /\ fieldRow'[i + 1].field = last'.args.field
           /\ fieldRow'[i + 2] = fieldRow[i + 1]
           /\ Len(fieldRow') = Len(fieldRow) + 1
           /\ \A j \in 1..i : fieldRow'[j] = fieldRow[j]
           /\ \A j \in (i + 2)..Len(fieldRow) : fieldRow'[j + 1] = fieldRow[j] ]_vars

\* fieldB was inserted at the index where fieldA sat, inside a longer row.
C4_Witness ==
  /\ last.op = "insertFieldAt"
  /\ last.args = Args(1, "fieldB", NoName, FALSE)
  /\ last.result = Returned("index", 2, <<>>)
  /\ Len(fieldRow) = 5
  /\ fieldRow[2].field = "fieldB"
  /\ fieldRow[3].field = "fieldA"

\* Number of fields of the row named n.
Named(row, n) == Cardinality({i \in 1..Len(row) : row[i].name = n})

\* The field.dispose calls among `calls`.
Disposals(calls) == {k \in 1..Len(calls) : calls[k].call = "field.dispose"}

\* C5: when exactly one field of the row has name x, removeField(x) removes
\* that field and no other, so the row is one shorter, and disposes that
\* field exactly once; with no field named x (as after that call)
\* removeField(x) fails with Not-found, the row is unchanged and no field is
\* disposed and nothing rendered.
C5_RemoveFieldOnce ==
  [][ LET x == last'.args.arg
      IN last'.op = "removeField" =>
           /\ Named(fieldRow, x) = 1 =>
                \E i \in 1..Len(fieldRow) :
                  /\ fieldRow[i].name = x
                  /\ Len(fieldRow') = Len(fieldRow) - 1
                  /\ \A j \in 1..(i - 1) : fieldRow'[j] = fieldRow[j]
                  /\ \A j \in (i + 1)..Len(fieldRow) : fieldRow'[j - 1] = fieldRow[j]
                  /\ Cardinality(Disposals(last'.calls)) = 1
                  /\ last'.calls[1] = Call("field.dispose", fieldRow[i].field, <<>>)
                  /\ Named(fieldRow', x) = 0
           /\ Named(fieldRow, x) = 0 =>
                /\ last'.result = Threw("NotFound")
                /\ fieldRow' = fieldRow
                /\ last'.calls = <<>> ]_vars

\* The one field named "x" was removed from between two others.
C5_Witness ==
  /\ last.op = "removeField"
  /\ last.args.arg = "x"
  /\ last.result.status = "returned"
  /\ Cardinality(Disposals(last.calls)) = 1
  /\ Len(fieldRow) = 2
  /\ Named(fieldRow, "x") = 0

\* C6: on an Input whose connection is linked to a child block, hiding a
\* visible Input hides the shown child, and setVisible(true) on the hidden
\* Input shows the child again and returns the list of the connection's
\* unhideAll.
C6_HideThenShow ==
  [][ (last'.op = "setVisible" /\ connection # "null" /\ child.linked) =>
      /\ (visible_ /\ ~last'.args.flag) =>
           /\ child.display = "block"
           /\ child'.display = "none"
           /\ ~visible_'
      /\ (~visible_ /\ last'.args.flag) =>
           /\ child.display = "none"
           /\ child'.display = "block"
           /\ last'.result = Returned("list", 0, unhideAll(child))
           /\ last'.result.list # <<>> ]_vars

\* A hidden Input with a linked child that has blocks below it was shown.
C6_Witness ==
  /\ last.op = "setVisible"
  /\ last.args.flag
  /\ visible_
  /\ connection # "null"
  /\ child.linked
  /\ child.display = "block"
  /\ last.result.list = <<"child", "grandchild">>
  /\ Len(fieldRow) > 0

\* C7: setVisible(v) on an Input whose visible flag is v returns an empty
\* list and changes nothing: no call is made to a field, to the connection
\* or to the linked block, and every flag keeps its value.
C7_SameVisibilityNoOp ==
  [][ (last'.op = "setVisible" /\ last'.args.flag = visible_) =>
        /\ last'.result = Returned("list", 0, <<>>)
        /\ last'.calls = <<>>
        /\ UNCHANGED <<inputVars, worldVars>> ]_vars

\* setVisible(false) was called on a hidden Input with fields, a connection
\* and a linked block.
C7_Witness ==
  /\ last.op = "setVisible"
  /\ ~last.args.flag
  /\ ~visible_
  /\ last.calls = <<>>
  /\ Len(fieldRow) > 0
  /\ connection # "null"
  /\ child.linked

\* C8: setCheck(check) on an Input without a connection fails with an
\* Invalid-state error and changes nothing; on an Input with a connection it
\* sets the connection's accepted types to check and returns the Input.
C8_SetCheck ==
  [][ last'.op = "setCheck" =>
        IF connection = "null"
        THEN /\ last'.result = Threw("InvalidState")
             /\ UNCHANGED <<inputVars, worldVars>>
        ELSE /\ last'.result = Returned("this", 0, <<>>)
             /\ conn'.check = last'.args.arg ]_vars

\* setCheck replaced the accepted types of a connection.
C8_Witness ==
  /\ last.op = "setCheck"
  /\ last.args.arg = "Number"
  /\ last.result = Returned("this", 0, <<>>)
  /\ connection # "null"
  /\ conn.check = "Number"

\* C9: constructing a ValueInput or StatementInput with an empty name fails,
\* constructing a DummyInput with an empty name succeeds, and every Input
\* that exists and is not a DummyInput has a non-empty name.
C9_NameRequired ==
  /\ exists /\ type # "DummyInput" => name # ""
  /\ (last.op = "constructor" /\ last.args.arg = "") =>
       IF last.args.field = "DummyInput"
       THEN exists /\ last.result = Returned("this", 0, <<>>)
            /\ type = "DummyInput" /\ name = ""
       ELSE ~exists /\ last.result = Threw("EmptyName")

\* A construction without a name was refused.
C9_Witness ==
  /\ last.op = "constructor"
  /\ last.args.field = "StatementInput"
  /\ last.args.arg = ""
  /\ last.result = Threw("EmptyName")
  /\ ~exists

\* C10: insertFieldAt(index, field, name) fails with an OutOfRange error
\* exactly when index < 0 or index > fieldRow.length, whatever the field; on
\* a live Input every index of 0..fieldRow.length with a field that is not
\* falsy succeeds.
C10_OutOfRange ==
  [][ LET index == last'.args.index
      IN last'.op = "insertFieldAt" =>
           /\ last'.result = Threw("OutOfRange")
                <=> (index < 0 \/ index > Len(fieldRow))
           /\ ( /\ sourceBlock_ # "null"
                /\ ~Falsy(last'.args.field)
                /\ index >= 0 /\ index <= Len(fieldRow) ) =>
                /\ last'.result = Returned("index", last'.result.index, <<>>)
                /\ Len(fieldRow') > Len(fieldRow) ]_vars

\* An index outside a row that holds fields was refused for a real field.
C10_Witness ==
  /\ last.op = "insertFieldAt"
  /\ last.args.field = "txt"
  /\ last.args.index = Len(fieldRow) + 1
  /\ last.result = Threw("OutOfRange")
  /\ Len(fieldRow) >= 2

\* The calls to the owning block among `calls`.
BlockCalls(calls) ==
  {k \in 1..Len(calls) :
     calls[k].call \in {"block.render", "block.bumpNeighbours_"}}

FailingOps ==
  {"insertFieldAt", "removeField", "setCheck", "setAlign", "setVisible", "init"}

\* C11: an insertFieldAt, removeField, setCheck, setAlign, setVisible or init
\* call that fails leaves the field row (the fields, the block they are bound
\* to and their disposed state), the visible flag, the alignment and the
\* connection as they were before the call, and issues no render and no
\* neighbour notification.
C11_FailsBeforeMutation ==
  [][ (last'.op \in FailingOps /\ last'.result.status = "threw") =>
        /\ UNCHANGED <<fieldRow, visible_, align, connection, conn>>
        /\ BlockCalls(last'.calls) = {} ]_vars

\* C12: after dispose(), insertFieldAt of a real field at an index of the
\* row, removeField of a name in the row, setVisible to the opposite state,
\* setCheck, setAlign and init all fail with an error.
C12_FailFastAfterDispose ==
  [][ ( /\ exists
        /\ disposeCalls > 0
        /\ sourceBlock_ = "null"
        /\ \/ /\ last'.op = "insertFieldAt"
              /\ ~Falsy(last'.args.field)
              /\ last'.args.index \in 0..Len(fieldRow)
           \/ /\ last'.op = "removeField"
              /\ Named(fieldRow, last'.args.arg) > 0
           \/ /\ last'.op = "setVisible"
              /\ last'.args.flag # visible_
           \/ last'.op \in {"setCheck", "setAlign", "init"} ) =>
        last'.result.status = "threw" ]_vars

\* C13: an Input has an outline only if it is a ValueInput whose owning block
\* is on a rendered workspace, and the outline appears only in a call of
\* initOutlinePath; initOutlinePath called when an outline exists creates no
\* outline and leaves the existing one and its node as they are.
C13_OutlineOnlyForValueInput ==
  [][ /\ outlinePath' # "null" =>
           /\ type' = "ValueInput"
           /\ block'.workspaceRendered
           /\ outlinePath = "null" => last'.op = "initOutlinePath"
      /\ (last'.op = "initOutlinePath" /\ outlinePath # "null") =>
           /\ UNCHANGED <<outlinePath, dom>>
           /\ last'.calls = <<>> ]_vars

\* initOutlinePath was called on a ValueInput that had its outline already.
C13_Witness ==
  /\ last.op = "initOutlinePath"
  /\ last.result.status = "returned"
  /\ last.calls = <<>>
  /\ outlinePath = "path"
  /\ dom.attached
  /\ type = "ValueInput"

\* C14: Grid.update(scale), called by itself or by moveTo on IE/Edge with the
\* stored scale, sets the width and the height of the tile pattern to 100
\* when spacing * scale is 0 and to spacing * scale otherwise, and never to 0.
C14_TileNeverZero ==
  [][ ( /\ grid'.op = "update" \/ (grid'.op = "moveTo" /\ grid.ie)
        /\ ~grid'.threw ) =>
        LET product == grid.spacing_ * grid'.scale_
        IN /\ grid'.tile.set
           /\ grid'.tile.width = grid'.tile.height
           /\ grid'.tile.width # 0
           /\ product = 0 => grid'.tile.width = 100 * PxUnit
           /\ product # 0 =>
                grid'.tile.width * ScaleOne = product * PxUnit ]_vars

\* update(0) was called on a grid with a spacing, and the tile set to 100.
C14_Witness ==
  /\ grid.op = "update"
  /\ ~grid.threw
  /\ grid.spacing_ > 0
  /\ grid.scale_ = 0
  /\ grid.tile = Tile(TRUE, 100 * PxUnit, 100 * PxUnit)

\* C15: the owning block is never rendered, and its neighbours never bumped,
\* while the row holds only part of a prefix/field/suffix group: in every
\* render() and bumpNeighbours call the row holds the prefix, the field and
\* the suffix together or none of them.
C15_InsertionAtomicForBlock ==
  \A k \in BlockCalls(last.calls) :
    LET row == last.calls[k].row
        has(f) == \E i \in 1..Len(row) : row[i] = f
    IN /\ has("ptxt") <=> has("presuf")
       /\ has("presuf") <=> has("stxt")

\* C16: an insertFieldAt (or appendField) that inserted a field and a
\* removeField that returned end with the owning block's render() and then
\* bumpNeighbours, both made on the updated row, when the block is rendered,
\* and make neither call when it is not; on a block that is not rendered no
\* insertFieldAt, removeField or setAlign call renders the block, bumps its
\* neighbours or initialises a field.
C16_RenderIffRendered ==
  [][ LET calls == last'.calls
          n == Len(calls)
          inserted == /\ last'.op \in {"insertFieldAt", "appendField"}
                      /\ last'.result.status = "returned"
                      /\ Len(fieldRow') > Len(fieldRow)
          removed == /\ last'.op = "removeField"
                     /\ last'.result.status = "returned"
      IN /\ (inserted \/ removed) =>
              IF block.rendered
              THEN /\ n >= 2
                   /\ calls[n - 1] = Call("block.render", "none", Fields(fieldRow'))
                   /\ calls[n] = Call("block.bumpNeighbours_", "none",
                                      Fields(fieldRow'))
              ELSE BlockCalls(calls) = {}
         /\ ( /\ last'.op \in {"insertFieldAt", "appendField", "removeField",
                               "setAlign"}
              /\ ~block.rendered ) =>
              \A k \in 1..n :
                calls[k].call \notin {"block.render", "block.bumpNeighbours_",
                                      "field.init"} ]_vars

\* A field was removed from a rendered block, which was then rendered on the
\* shorter row and its neighbours bumped.
C16_Witness ==
  /\ last.op = "removeField"
  /\ last.result.status = "returned"
  /\ block.rendered
  /\ Len(fieldRow) >= 1
  /\ Len(last.calls) = 3
  /\ last.calls[2] = Call("block.render", "none", Fields(fieldRow))
  /\ last.calls[3] = Call("block.bumpNeighbours_", "none", Fields(fieldRow))

\* C17: a setVisible(v) call that changes the state calls setVisible(v) on
\* every field of the row, in row order, then hideAll or unhideAll on the
\* connection (if there is one), then changes the display of the linked
\* child block (if there is one), and makes no other call.
C17_CascadeTopDown ==
  [][ (last'.op = "setVisible" /\ last'.args.flag # visible_) =>
        LET calls == last'.calls
            v == last'.args.flag
            n == Len(fieldRow)
            hasConn == connection # "null"
            hasChild == hasConn /\ child.linked
        IN /\ Len(calls) = n + (IF hasConn THEN 1 ELSE 0)
                             + (IF hasChild THEN 1 ELSE 0)
           /\ \A i \in 1..n :
                /\ calls[i] = Call("field.setVisible", fieldRow[i].field, <<>>)
                /\ fieldRow'[i].visible = v
           /\ hasConn =>
                calls[n + 1].call = IF v THEN "connection.unhideAll"
                                    ELSE "connection.hideAll"
           /\ hasChild =>
                /\ calls[n + 2].call = "child.display"
                /\ child'.display = Display(v) ]_vars

\* An Input with two different fields, a connection and a linked child block
\* was hidden.
C17_Witness ==
  /\ last.op = "setVisible"
  /\ ~last.args.flag
  /\ ~visible_
  /\ Len(fieldRow) >= 2
  /\ fieldRow[1].field # fieldRow[2].field
  /\ Len(last.calls) = Len(fieldRow) + 2
  /\ last.calls[Len(fieldRow) + 2].call = "child.display"
  /\ child.display = "none"

\* C18: every insertFieldAt(index, field, name) call that does not fail
\* returns a row index, namely index plus the number of entries the call put
\* into the row, also when it put in none.
C18_ReturnsIndex ==
  [][ (last'.op = "insertFieldAt" /\ last'.result.status = "returned") =>
        last'.result = Returned("index",
                                last'.args.index + Len(fieldRow') - Len(fieldRow),
                                <<>>) ]_vars

\* C19: appendField(field) with a falsy field (null, undefined, the empty
\* string) and no name returns the Input and does nothing: the row is
\* unchanged and no field is bound or initialised and no block call made, on
\* rendered and headless blocks alike; on a live Input appendField of a
\* string puts one new field of that text and name at the end of the row,
\* the fields before it unchanged, binds it to the block and returns the
\* Input, with the rendered block rendered on the new row.
C19_AppendField ==
  [][ last'.op = "appendField" =>
        LET field == last'.args.field
            n == Len(fieldRow)
        IN /\ (field \in {"null", "empty"} /\ last'.args.arg = NoName) =>
                /\ last'.result = Returned("this", 0, <<>>)
                /\ last'.calls = <<>>
                /\ UNCHANGED <<inputVars, worldVars>>
           /\ (field = "txt" /\ sourceBlock_ # "null") =>
                /\ last'.result = Returned("this", 0, <<>>)
                /\ Len(fieldRow') = n + 1
                /\ \A j \in 1..n : fieldRow'[j] = fieldRow[j]
                /\ fieldRow'[n + 1].field = "txt"
                /\ fieldRow'[n + 1].name = last'.args.arg
                /\ fieldRow'[n + 1].sourceBlock = "block"
                /\ last'.calls[1] = Call("field.setSourceBlock", "txt", <<>>)
                /\ BlockCalls(last'.calls) # {} <=> block.rendered ]_vars

\* appendField(null) was called on a rendered block whose Input has fields.
C19_Witness ==
  /\ last.op = "appendField"
  /\ last.args.field = "null"
  /\ last.args.arg = NoName
  /\ last.result = Returned("this", 0, <<>>)
  /\ last.calls = <<>>
  /\ block.rendered
  /\ sourceBlock_ # "null"
  /\ Len(fieldRow) >= 2

\* C20: on a live Input, whatever insertFieldAt, removeField and setVisible
\* calls were made, every field in the row has the visibility of the Input.
C20_FieldsFollowInput ==
  (exists /\ sourceBlock_ # "null") =>
    \A i \in 1..Len(fieldRow) : fieldRow[i].visible = visible_

====
